---- MODULE Spec2Model ----
(***************************************************************************)
(* ArXiv paper store on a key/value engine (problem2): the loader          *)
(* (load_data.py) projects every paper into denormalised items keyed by    *)
(* category, author and keyword and upserts them; the query functions      *)
(* (query_papers.py, api_server.py) read single partitions of the table,   *)
(* and do_GET (api_server.py) routes HTTP requests to them.                *)
(*                                                                         *)
(* Strings that the code concatenates, compares or tokenises are modelled  *)
(* as sequences of one-character strings, ordered by their byte values as  *)
(* the storage engine orders string sort keys.                             *)
(***************************************************************************)
EXTENDS Integers, Sequences, FiniteSets, TLC

VARIABLES
    store,      \* the table: a set of items, at most one per (PK, SK)
    pc,         \* where the loader is: "idle", "writing", "done", "crashed"
    papers,     \* main(): the papers loaded from the JSON file for this run
    pending,    \* positions of all_items not yet put by batch_write_items
    base,       \* the table contents when this run began
    latest,     \* per identifier, the version ingested by the last completed run
    clean,      \* no run has been cut short so far
    loaded,     \* number of papers handed to the loader over all runs
    request,    \* api_server.py: the GET request handled last
    responses,  \* the responses do_GET sent for it, in order
    queries,    \* the number of table.query calls do_GET made for it
    arg_text,   \* extract_keywords: the text it was called with
    arg_top_n,  \* its top_n argument; 0 before the call
    returned    \* the list it returned

\* the variables of the loader, of the HTTP front end and of the extractor
loader == <<store, pc, papers, pending, base, latest, clean, loaded>>
front == <<request, responses, queries>>
extractor == <<arg_text, arg_top_n, returned>>

vars == <<loader, front, extractor>>

----------------------------------------------------------------------------
(* Bounds of the model *)

MaxPapers == 2      \* papers ingested over all runs
MaxBatch == 2       \* papers in one input file
MaxLimit == 2       \* largest Limit a query is called with
MaxWords == 3       \* words in a text handed to the keyword extractor
MaxTopN == 2        \* largest top_n the keyword extractor is called with

----------------------------------------------------------------------------
(* Characters and byte-wise string order *)

\* The characters used, in increasing byte (ASCII) order.
Ascii ==
    <<" ", "#", "%", "-", ".", "0", "1", "2", "3", "4", "5", "6", "7", "8", "9", ":",
      "A", "B", "C", "D", "E", "F", "G", "H", "I", "J", "K", "L", "M", "N", "O",
      "P", "Q", "R", "S", "T", "U", "V", "W", "X", "Y", "Z",
      "a", "b", "c", "d", "e", "f", "g", "h", "i", "j", "k", "l", "m", "n", "o",
      "p", "q", "r", "s", "t", "u", "v", "w", "x", "y", "z">>

Chars == {Ascii[i] : i \in 1..Len(Ascii)}

Ord == [c \in Chars |-> CHOOSE i \in 1..Len(Ascii) : Ascii[i] = c]

UpperFirst == Ord["A"]
LowerFirst == Ord["a"]

IsUpper(c) == Ord[c] >= UpperFirst /\ Ord[c] < UpperFirst + 26
IsLower(c) == Ord[c] >= LowerFirst /\ Ord[c] < LowerFirst + 26
IsDigit(c) == Ord[c] >= Ord["0"] /\ Ord[c] <= Ord["9"]

\* str.lower() on one character, and on a string
LowerChar(c) == IF IsUpper(c) THEN Ascii[Ord[c] - UpperFirst + LowerFirst] ELSE c
Lower(s) == [i \in 1..Len(s) |-> LowerChar(s[i])]

\* s < t in the byte-wise lexicographic order of the storage engine: decided
\* by the first position where they differ, a proper prefix being smaller
StrLess(s, t) ==
    LET n == IF Len(s) < Len(t) THEN Len(s) ELSE Len(t)
        differ == {i \in 1..n : s[i] # t[i]}
    IN  IF differ = {} THEN Len(s) < Len(t)
        ELSE LET k == CHOOSE i \in differ : \A j \in differ : i <= j
             IN  Ord[s[k]] < Ord[t[k]]

StrLeq(s, t) == s = t \/ StrLess(s, t)

----------------------------------------------------------------------------
(* Keyword extraction: load_data.py extract_keywords *)

STOPWORDS ==
    {<<"t", "h", "e">>,
     <<"a">>,
     <<"a", "n">>,
     <<"a", "n", "d">>,
     <<"o", "r">>,
     <<"b", "u", "t">>,
     <<"i", "n">>,
     <<"o", "n">>,
     <<"a", "t">>,
     <<"t", "o">>,
     <<"f", "o", "r">>,
     <<"o", "f">>,
     <<"w", "i", "t", "h">>,
     <<"b", "y">>,
     <<"f", "r", "o", "m">>,
     <<"u", "p">>,
     <<"a", "b", "o", "u", "t">>,
     <<"i", "n", "t", "o">>,
     <<"t", "h", "r", "o", "u", "g", "h">>,
     <<"d", "u", "r", "i", "n", "g">>,
     <<"i", "s">>,
     <<"a", "r", "e">>,
     <<"w", "a", "s">>,
     <<"w", "e", "r", "e">>,
     <<"b", "e">>,
     <<"b", "e", "e", "n">>,
     <<"b", "e", "i", "n", "g">>,
     <<"h", "a", "v", "e">>,
     <<"h", "a", "s">>,
     <<"h", "a", "d">>,
     <<"d", "o">>,
     <<"d", "o", "e", "s">>,
     <<"d", "i", "d">>,
     <<"w", "i", "l", "l">>,
     <<"w", "o", "u", "l", "d">>,
     <<"c", "o", "u", "l", "d">>,
     <<"s", "h", "o", "u", "l", "d">>,
     <<"m", "a", "y">>,
     <<"m", "i", "g", "h", "t">>,
     <<"c", "a", "n">>,
     <<"t", "h", "i", "s">>,
     <<"t", "h", "a", "t">>,
     <<"t", "h", "e", "s", "e">>,
     <<"t", "h", "o", "s", "e">>,
     <<"w", "e">>,
     <<"o", "u", "r">>,
     <<"u", "s", "e">>,
     <<"u", "s", "i", "n", "g">>,
     <<"b", "a", "s", "e", "d">>,
     <<"a", "p", "p", "r", "o", "a", "c", "h">>,
     <<"m", "e", "t", "h", "o", "d">>,
     <<"p", "a", "p", "e", "r">>,
     <<"p", "r", "o", "p", "o", "s", "e">>,
     <<"p", "r", "o", "p", "o", "s", "e", "d">>,
     <<"s", "h", "o", "w">>}

MinWordLen == 3     \* the {3,} of the token pattern
TopN == 10          \* top_n of the call in create_dynamodb_items

\* \w of the pattern: letters, digits (and "_", which no modelled text holds)
IsWord(c) == IsUpper(c) \/ IsLower(c) \/ IsDigit(c)

\* \b between positions p and p+1 of s (p = 0 and p = Len(s) are the ends)
Boundary(s, p) ==
    LET left == p >= 1 /\ IsWord(s[p])
        right == p < Len(s) /\ IsWord(s[p + 1])
    IN  left # right

\* lengths n for which \b[a-z]{3,}\b matches s at position i
MatchLens(s, i) ==
    {n \in MinWordLen..(Len(s) - i + 1) :
        /\ Boundary(s, i - 1)
        /\ \A k \in i..(i + n - 1) : IsLower(s[k])
        /\ Boundary(s, i + n - 1)}

SetMax(S) == CHOOSE n \in S : \A m \in S : m <= n
SetMin(S) == CHOOSE n \in S : \A m \in S : n <= m

\* re.findall: leftmost, greedy, non-overlapping matches from position i on
RECURSIVE FindAll(_, _)
FindAll(s, i) ==
    IF i > Len(s) THEN <<>>
    ELSE LET ns == MatchLens(s, i)
         IN  IF ns = {} THEN FindAll(s, i + 1)
             ELSE <<SubSeq(s, i, i + SetMax(ns) - 1)>> \o FindAll(s, i + SetMax(ns))

\* the word list with the stopwords left in
Unfiltered(words) == words

\* [w for w in words if w not in STOPWORDS]
Filtered(words) == SelectSeq(words, LAMBDA w : w \notin STOPWORDS)

Count(ws, w) == Cardinality({i \in 1..Len(ws) : ws[i] = w})
FirstIndex(ws, w) == SetMin({i \in 1..Len(ws) : ws[i] = w})

\* Counter(ws).most_common(n): by count descending, equal counts in the order
\* of first insertion; the first n of them
MostCommon(ws, n) ==
    LET firsts == {i \in 1..Len(ws) : FirstIndex(ws, ws[i]) = i}
        Before(i, j) == \/ Count(ws, ws[i]) > Count(ws, ws[j])
                        \/ Count(ws, ws[i]) = Count(ws, ws[j]) /\ i < j
        Rank(j) == Cardinality({i \in firsts : Before(i, j)}) + 1
        size == IF Cardinality(firsts) < n THEN Cardinality(firsts) ELSE n
    IN  [r \in 1..size |-> ws[CHOOSE j \in firsts : Rank(j) = r]]

extract_keywords(abstract, top_n) ==
    IF abstract = <<>> THEN <<>>
    ELSE MostCommon(Filtered(FindAll(Lower(abstract), 1)), top_n)

----------------------------------------------------------------------------
(* Record projection: load_data.py create_dynamodb_items *)

CategoryPrefix == <<"C", "A", "T", "E", "G", "O", "R", "Y", "#">>
AuthorPrefix == <<"A", "U", "T", "H", "O", "R", "#">>
KeywordPrefix == <<"K", "E", "Y", "W", "O", "R", "D", "#">>
PaperPrefix == <<"P", "A", "P", "E", "R", "#">>
Hash == <<"#">>
Uncategorized == <<"u", "n", "c", "a", "t", "e", "g", "o", "r", "i", "z", "e", "d">>
UnknownAuthor == <<"U", "n", "k", "n", "o", "w", "n">>
UnknownId == <<"u", "n", "k", "n", "o", "w", "n">>

\* dict.get(key, default)
Get(d, key, default) == IF key \in DOMAIN d THEN d[key] ELSE default

\* the payload every item of one paper carries
base_data(paper) ==
    [arxiv_id |-> Get(paper, "id", UnknownId),
     title |-> Get(paper, "title", ""),
     authors |-> Get(paper, "authors", <<>>),
     abstract |-> Get(paper, "summary", <<>>),
     categories |-> Get(paper, "categories", <<>>),
     published |-> Get(paper, "published", <<>>),
     keywords |-> extract_keywords(Get(paper, "summary", <<>>), TopN)]

\* the sort key without the identifier
SortKeyPublishedOnly(published, arxiv_id) == published

\* f'{published}#{arxiv_id}'
SortKey(published, arxiv_id) == published \o Hash \o arxiv_id

\* {**a, **b}: the entries of a, overridden and extended by those of b
Merge(a, b) ==
    [k \in DOMAIN a \cup DOMAIN b |-> IF k \in DOMAIN b THEN b[k] ELSE a[k]]

CategoryItem(category, data) ==
    Merge([PK |-> CategoryPrefix \o category,
           SK |-> SortKey(data.published, data.arxiv_id),
           GSI2PK |-> PaperPrefix \o data.arxiv_id], data)

AuthorItem(author, data) ==
    Merge([PK |-> AuthorPrefix \o author,
           SK |-> SortKey(data.published, data.arxiv_id),
           GSI1PK |-> AuthorPrefix \o author,
           GSI1SK |-> data.published,
           GSI2PK |-> PaperPrefix \o data.arxiv_id], data)

KeywordItem(keyword, data) ==
    Merge([PK |-> KeywordPrefix \o keyword,
           SK |-> SortKey(data.published, data.arxiv_id),
           GSI3PK |-> KeywordPrefix \o keyword,
           GSI3SK |-> data.published,
           GSI2PK |-> PaperPrefix \o data.arxiv_id], data)

\* the lists the three loops run over
CategoryValues(data) == IF data.categories # <<>> THEN data.categories ELSE <<Uncategorized>>
AuthorValues(data) == IF data.authors # <<>> THEN data.authors ELSE <<UnknownAuthor>>

create_dynamodb_items(paper) ==
    LET data == base_data(paper)
        cats == CategoryValues(data)
        auths == AuthorValues(data)
    IN  [i \in 1..Len(cats) |-> CategoryItem(cats[i], data)]
        \o [i \in 1..Len(auths) |-> AuthorItem(auths[i], data)]
        \o [i \in 1..Len(data.keywords) |-> KeywordItem(data.keywords[i], data)]

----------------------------------------------------------------------------
(* The table and the loader: load_data.py batch_write_items, main *)

\* put_item as a delete followed by an insert that is skipped when the key
\* was there
PutItemDeleteOnly(table, item) ==
    IF \E it \in table : it.PK = item.PK /\ it.SK = item.SK
    THEN {it \in table : ~(it.PK = item.PK /\ it.SK = item.SK)}
    ELSE table \cup {item}

\* put_item on a table whose primary key is the partition key alone
PutItemByPK(table, item) ==
    {it \in table : it.PK # item.PK} \cup {item}

\* put_item: an upsert on the primary key (PK, SK)
PutItem(table, item) ==
    {it \in table : ~(it.PK = item.PK /\ it.SK = item.SK)} \cup {item}

\* the puts of batch_write_items, in the order of the loop, none failing
RECURSIVE WriteAll(_, _)
WriteAll(table, items) ==
    IF items = <<>> THEN table
    ELSE WriteAll(PutItem(table, Head(items)), Tail(items))

----------------------------------------------------------------------------
(* Input papers *)

Id1 == <<"2", "3", "0", "1", ".", "0", "1">>
Id2 == <<"2", "3", "0", "1", ".", "0", "2">>
Ann == <<"A", "n", "n">>
Bob == <<"B", "o", "b">>
csLG == <<"c", "s", ".", "L", "G">>
csAI == <<"c", "s", ".", "A", "I">>
Abs1 == <<"G", "N", "N", " ", "o", "f", " ", "t", "h", "e", " ", "G", "N", "N">>
Abs2 == <<"T", "r", "e", "e", "-", "G", "N", "N", " ", "o", "f", " ", "3", "d">>
Jan15 == <<"2", "0", "2", "0", "-", "0", "1", "-", "1", "5", "T", "0", "9", ":", "0", "0", ":", "0", "0", "Z">>
Jan31 == <<"2", "0", "2", "0", "-", "0", "1", "-", "3", "1", "T", "1", "2", ":", "0", "0", ":", "0", "0", "Z">>
Feb01 == <<"2", "0", "2", "0", "-", "0", "2", "-", "0", "1", "T", "0", "0", ":", "0", "0", ":", "0", "0", "Z">>

Ids == {Id1, Id2}

BasePaper(id) ==
    [id |-> id, title |-> "Graph nets", authors |-> <<Ann>>, summary |-> Abs1,
     categories |-> <<csLG>>, published |-> Jan15]

\* a paper without the key k
Without(paper, k) == [f \in DOMAIN paper \ {k} |-> paper[f]]

\* The versions of the first paper: the base record and records that differ
\* from it in one field (retitled, a repeated author, no author list, another
\* abstract, no abstract, a second category, no category, republished on two
\* later days).
Versions1 ==
    LET b == BasePaper(Id1)
    IN  {b, [b EXCEPT !.title = "Graph networks"]}
        \cup {[b EXCEPT !.authors = <<Ann, Ann>>], Without(b, "authors")}
        \cup {[b EXCEPT !.summary = s] : s \in {Abs2, <<>>}}
        \cup {[b EXCEPT !.categories = c] : c \in {<<csLG, csAI>>, <<>>}}
        \cup {[b EXCEPT !.published = d] : d \in {Jan31, Feb01}}

\* The versions of the second paper
Versions2 ==
    LET b == BasePaper(Id2)
    IN  {b, [b EXCEPT !.authors = <<Ann, Bob>>],
         [b EXCEPT !.categories = <<csLG, csAI>>],
         [b EXCEPT !.published = Jan31]}

Papers == Versions1 \cup Versions2

\* the input files: lists of n papers
Batches(n) == [1..n -> Papers]

\* the input files of the runs whose puts are dispatched in any order: lists of
\* n papers that differ from the base record in title or authors at most
AnyOrderPapers ==
    {p \in Papers : p.summary = Abs1 /\ p.categories = <<csLG>> /\ p.published = Jan15}
AnyOrderBatches(n) == [1..n -> AnyOrderPapers]

\* create_dynamodb_items on every input paper, computed once
ItemsOf == [p \in Papers |-> create_dynamodb_items(p)]

\* all_items.extend(create_dynamodb_items(paper)) for every paper of the list
RECURSIVE AllItems(_)
AllItems(ps) ==
    IF ps = <<>> THEN <<>>
    ELSE ItemsOf[Head(ps)] \o AllItems(Tail(ps))

\* main(): the projected items of this run, in write order
all_items == AllItems(papers)

\* batch_write_items: the count it returns
Written == Len(all_items) - Cardinality(pending)

NoPaper == [missing |-> TRUE]

\* no request has been handled yet
NoRequest == [none |-> TRUE]

\* the last paper of the list that has the identifier, if any
LastVersion(ps, id, default) ==
    LET at == {i \in 1..Len(ps) : ps[i].id = id}
    IN  IF at = {} THEN default ELSE ps[SetMax(at)]

----------------------------------------------------------------------------
(* The loader as a state machine *)

Init ==
    /\ store = {}
    /\ pc = "idle"
    /\ papers = <<>>
    /\ pending = {}
    /\ base = {}
    /\ latest = [id \in Ids |-> NoPaper]
    /\ clean = TRUE
    /\ loaded = 0
    /\ request = NoRequest
    /\ responses = <<>>
    /\ queries = 0
    /\ arg_text = <<>>
    /\ arg_top_n = 0
    /\ returned = <<>>

\* main() up to the call of batch_write_items
StartIngest(batch) ==
    /\ pc \in {"idle", "done", "crashed"}
    /\ Len(batch) >= 1
    /\ loaded + Len(batch) <= MaxPapers
    /\ papers' = batch
    /\ pending' = 1..Len(AllItems(batch))
    /\ base' = store
    /\ loaded' = loaded + Len(batch)
    /\ pc' = "writing"
    /\ UNCHANGED <<store, latest, clean, front, extractor>>

\* one turn of the loop of batch_write_items: the next item is put. The batch
\* writer sends the puts in groups, which the engine applies one by one and
\* not atomically, so every prefix of the puts is a state of the table.
WriteItem ==
    /\ pc = "writing"
    /\ pending # {}
    /\ store' = PutItem(store, all_items[SetMin(pending)])
    /\ pending' = pending \ {SetMin(pending)}
    /\ UNCHANGED <<pc, papers, base, latest, clean, loaded, front, extractor>>

\* batch_write_items returns and main() reports
Finish ==
    /\ pc = "writing"
    /\ pending = {}
    /\ pc' = "done"
    /\ latest' = [id \in Ids |-> LastVersion(papers, id, latest[id])]
    /\ UNCHANGED <<store, papers, pending, base, clean, loaded, front, extractor>>

\* the run ends before all items are put: the put of the next item raises (a
\* storage error the engine does not retry) or the process is killed.
\* batch_write_items and main() have no except clause, so the exception ends
\* the process; the next item and those after it are not written
Crash ==
    /\ pc = "writing"
    /\ pending # {}
    /\ pc' = "crashed"
    /\ clean' = FALSE
    /\ UNCHANGED <<store, papers, pending, base, latest, loaded, front, extractor>>

Next ==
    \/ \E n \in 1..MaxBatch :
        n <= MaxPapers - loaded /\ \E batch \in Batches(n) : StartIngest(batch)
    \/ WriteItem
    \/ Finish
    \/ Crash

Spec == Init /\ [][Next]_vars

\* The same loader with the puts of one run dispatched in any order
WriteAny ==
    /\ pc = "writing"
    /\ \E i \in pending :
        /\ store' = PutItem(store, all_items[i])
        /\ pending' = pending \ {i}
    /\ UNCHANGED <<pc, papers, base, latest, clean, loaded, front, extractor>>

NextAnyOrder ==
    \/ \E n \in 1..MaxBatch :
        n <= MaxPapers - loaded /\ \E batch \in AnyOrderBatches(n) : StartIngest(batch)
    \/ WriteAny
    \/ Finish

SpecAnyOrder == Init /\ [][NextAnyOrder]_vars

\* runs of the loader that all reach the end of main(): the table contents
\* the query front ends are examined on
NextUninterrupted ==
    \/ \E n \in 1..MaxBatch :
        n <= MaxPapers - loaded /\ \E batch \in Batches(n) : StartIngest(batch)
    \/ WriteItem
    \/ Finish

SpecUninterrupted == Init /\ [][NextUninterrupted]_vars

----------------------------------------------------------------------------
(* Queries: query_papers.py, api_server.py *)

MaxSentinel == <<"#", "z", "z", "z", "z", "z", "z", "z">>

Min(a, b) == IF a < b THEN a ELSE b

\* the items of one partition of the table
Partition(table, pk) == {it \in table : it.PK = pk}

\* a set of items of one partition, ascending by sort key
BySK(items) ==
    LET below == [it \in items |-> Cardinality({o \in items : StrLess(o.SK, it.SK)})]
    IN  [r \in 1..Cardinality(items) |-> CHOOSE it \in items : below[it] = r - 1]

Reverse(s) == [i \in 1..Len(s) |-> s[Len(s) + 1 - i]]

\* the query without ScanIndexForward: always ascending
QueryPKAscending(table, pk, forward) == BySK(Partition(table, pk))

\* table.query(KeyConditionExpression=Key('PK').eq(pk), ScanIndexForward=forward):
\* the whole partition in sort-key order
QueryPK(table, pk, forward) ==
    IF forward THEN BySK(Partition(table, pk)) ELSE Reverse(BySK(Partition(table, pk)))

\* the last limit items of the scan instead of the first
LimitedFromEnd(items, limit) ==
    SubSeq(items, Len(items) - Min(limit, Len(items)) + 1, Len(items))

\* Limit=limit: the first limit items of the scan
Limited(items, limit) == SubSeq(items, 1, Min(limit, Len(items)))

\* the record the query functions return for an item
ResultOf(item) ==
    [arxiv_id |-> item.arxiv_id, title |-> item.title, authors |-> item.authors,
     published |-> item.published, categories |-> item.categories]

\* query_papers.py query_recent_in_category
query_recent_in_category(table, category, limit) ==
    LET Items == Limited(QueryPK(table, CategoryPrefix \o category, FALSE), limit)
    IN  [results |-> [i \in 1..Len(Items) |-> ResultOf(Items[i])],
         count |-> Len(Items)]

\* the record the HTTP handlers return for an item
PaperOf(item) ==
    [arxiv_id |-> item.arxiv_id, title |-> item.title, authors |-> item.authors,
     published |-> item.published]

\* api_server.py PaperAPIHandler.query_recent
query_recent(table, category, limit) ==
    LET Items == Limited(QueryPK(table, CategoryPrefix \o category, FALSE), limit)
    IN  [category |-> category,
         papers |-> [i \in 1..Len(Items) |-> PaperOf(Items[i])],
         count |-> Len(Items)]

\* Key('SK').between(low, high) on the ascending scan of a partition
Between(items, low, high) ==
    SelectSeq(items, LAMBDA it : StrLeq(low, it.SK) /\ StrLeq(it.SK, high))

\* query_papers.py query_papers_in_date_range
query_papers_in_date_range(table, category, start_date, end_date) ==
    LET Items == Between(QueryPK(table, CategoryPrefix \o category, TRUE),
                         start_date \o Hash, end_date \o MaxSentinel)
    IN  [results |-> [i \in 1..Len(Items) |-> ResultOf(Items[i])],
         count |-> Len(Items)]

\* the record get_paper_by_id returns for an item
FullResultOf(item) ==
    [arxiv_id |-> item.arxiv_id, title |-> item.title, authors |-> item.authors,
     published |-> item.published, categories |-> item.categories,
     abstract |-> Get(item, "abstract", <<>>), keywords |-> Get(item, "keywords", <<>>)]

\* query_papers.py get_paper_by_id: PaperIdIndex has a hash key only, so
\* Limit=1 yields any one item of the identifier; the set of possible returns
get_paper_by_id(table, arxiv_id) ==
    LET found == {it \in table : it.GSI2PK = PaperPrefix \o arxiv_id}
    IN  IF found = {} THEN {[results |-> <<>>, count |-> 0]}
        ELSE {[results |-> <<FullResultOf(it)>>, count |-> 1] : it \in found}

\* the items a secondary index holds under one partition key; an item
\* without the key attribute of the index is not in the index
IndexPartition(table, pkAttr, pk) ==
    {it \in table : pkAttr \in DOMAIN it /\ it[pkAttr] = pk}

\* the index scanned ascending whatever ScanIndexForward says
IndexOrdersAscending(items, skAttr, forward) ==
    LET n == Cardinality(items)
    IN  {f \in [1..n -> items] :
            /\ \A i, j \in 1..n : i # j => f[i] # f[j]
            /\ \A i \in 1..(n - 1) : StrLeq(f[i][skAttr], f[i + 1][skAttr])}

\* the orders a secondary index can return the items of a partition in:
\* by the sort key of the index, ascending when forward and descending
\* otherwise; the order of items with equal sort keys is not defined
IndexOrders(items, skAttr, forward) ==
    LET n == Cardinality(items)
    IN  {f \in [1..n -> items] :
            /\ \A i, j \in 1..n : i # j => f[i] # f[j]
            /\ \A i \in 1..(n - 1) :
                IF forward THEN StrLeq(f[i][skAttr], f[i + 1][skAttr])
                ELSE StrLeq(f[i + 1][skAttr], f[i][skAttr])}

\* the partition key with the keyword as the caller wrote it
KeywordKeyAsGiven(keyword) == KeywordPrefix \o keyword

\* f'KEYWORD#{keyword.lower()}'
KeywordKey(keyword) == KeywordPrefix \o Lower(keyword)

\* the item lists the KeywordIndex query can return
KeywordQuery(table, keyword, limit) ==
    {Limited(o, limit) :
        o \in IndexOrders(IndexPartition(table, "GSI3PK", KeywordKey(keyword)),
                          "GSI3SK", FALSE)}

\* query_papers.py query_papers_by_keyword: the set of possible returns
query_papers_by_keyword(table, keyword, limit) ==
    {[results |-> [i \in 1..Len(Items) |-> ResultOf(Items[i])],
      count |-> Len(Items)] : Items \in KeywordQuery(table, keyword, limit)}

\* api_server.py PaperAPIHandler.query_keyword: the set of possible returns
query_keyword(table, keyword, limit) ==
    {[keyword |-> keyword,
      papers |-> [i \in 1..Len(Items) |-> PaperOf(Items[i])],
      count |-> Len(Items)] : Items \in KeywordQuery(table, keyword, limit)}

\* the item lists the AuthorIndex query can return: no Limit, ascending
AuthorQuery(table, author_name) ==
    IndexOrders(IndexPartition(table, "GSI1PK", AuthorPrefix \o author_name),
                "GSI1SK", TRUE)

\* query_papers.py query_papers_by_author: the set of possible returns
query_papers_by_author(table, author_name) ==
    {[results |-> [i \in 1..Len(Items) |-> ResultOf(Items[i])],
      count |-> Len(Items)] : Items \in AuthorQuery(table, author_name)}

\* api_server.py PaperAPIHandler.query_author: the set of possible returns
query_author(table, author_name) ==
    {[author |-> author_name,
      papers |-> [i \in 1..Len(Items) |-> PaperOf(Items[i])],
      count |-> Len(Items)] : Items \in AuthorQuery(table, author_name)}

----------------------------------------------------------------------------
(* Vocabulary of the properties *)

Range(s) == {s[i] : i \in 1..Len(s)}

IsPrefix(p, s) == Len(p) <= Len(s) /\ SubSeq(s, 1, Len(p)) = p

PayloadFields ==
    {"arxiv_id", "title", "authors", "abstract", "categories", "published", "keywords"}

\* the payload snapshot an item carries
Payload(item) == [k \in PayloadFields |-> item[k]]

\* the items stored under an identifier (its PAPER#<id> lookup family)
EntriesOf(table, id) == {it \in table : it.GSI2PK = PaperPrefix \o id}

\* the partition keys one version of a paper is indexed under
IndexKeys(data) ==
    {CategoryPrefix \o c : c \in Range(CategoryValues(data))}
        \cup {AuthorPrefix \o a : a \in Range(AuthorValues(data))}
        \cup {KeywordPrefix \o k : k \in Range(data.keywords)}

\* every run so far has run to its end
Completed == clean /\ pc = "done"

\* the identifiers ingested by completed runs
Ingested == {id \in Ids : latest[id] # NoPaper}

\* the current run ingests again an identifier the table already holds
ReIngesting ==
    \E it \in base : \E i \in 1..Len(papers) : papers[i].id = it.arxiv_id

\* the arguments the queries are called with
QueryCategories == {csLG, csAI, Uncategorized}
Limits == 1..MaxLimit
Date0101 == <<"2", "0", "2", "0", "-", "0", "1", "-", "0", "1">>
Date0115 == <<"2", "0", "2", "0", "-", "0", "1", "-", "1", "5">>
Date0131 == <<"2", "0", "2", "0", "-", "0", "1", "-", "3", "1">>
Date0201 == <<"2", "0", "2", "0", "-", "0", "2", "-", "0", "1">>
QueryDates == {Date0101, Date0115, Date0131, Date0201}

\* the keywords by-keyword is called with: stored ones in several spellings,
\* and one no abstract contains
KwGnn == <<"g", "n", "n">>
KwGNN == <<"G", "N", "N">>
KwTree == <<"T", "r", "e", "e">>
KwTreeLower == <<"t", "r", "e", "e">>
KwNlp == <<"n", "l", "p">>
KeywordArgs == {KwGnn, KwGNN, KwTree, KwTreeLower, KwNlp}

\* the sentinel author of the specification
SentinelAuthor == <<"u", "n", "k", "n", "o", "w", "n">>

\* the positions of the items of a list whose partition key has the prefix
ItemsUnder(items, prefix) == {k \in 1..Len(items) : IsPrefix(prefix, items[k].PK)}

\* no two records of the list have the same identifier
NoRepeatedId(rs) ==
    \A i, j \in 1..Len(rs) : i # j => rs[i].arxiv_id # rs[j].arxiv_id

\* the authors by-author is called with
QueryAuthors == {Ann, Bob, UnknownAuthor}

\* the calendar date of a publication timestamp, to the precision of date d
DateOf(published, d) == SubSeq(published, 1, Min(Len(d), Len(published)))

\* no two papers of the list have the same identifier
DistinctIds(ps) == \A i, j \in 1..Len(ps) : i # j => ps[i].id # ps[j].id

\* the items of this run that have been put, in the order of all_items
PutSoFar ==
    LET put == (1..Len(all_items)) \ pending
    IN  [r \in 1..Cardinality(put) |->
            all_items[CHOOSE i \in put : Cardinality({j \in put : j < i}) = r - 1]]

\* a list of result records is descending by sort key published#identifier
DescendingBySortKey(rs) ==
    \A i \in 1..(Len(rs) - 1) :
        StrLess(SortKey(rs[i + 1].published, rs[i + 1].arxiv_id),
                SortKey(rs[i].published, rs[i].arxiv_id))

\* no record of the list is published later than the one before it
NotAscendingByPublished(rs) ==
    \A i \in 1..(Len(rs) - 1) : StrLeq(rs[i + 1].published, rs[i].published)

\* every record of the list is published strictly later than the next one
StrictlyDescendingByPublished(rs) ==
    \A i \in 1..(Len(rs) - 1) : StrLess(rs[i + 1].published, rs[i].published)

----------------------------------------------------------------------------
(* The HTTP front end: api_server.py PaperAPIHandler *)

StatusOK == 200
StatusNotFound == 404
StatusError == 500

SegPapers == <<"p", "a", "p", "e", "r", "s">>
SegRecent == <<"r", "e", "c", "e", "n", "t">>
SegAuthor == <<"a", "u", "t", "h", "o", "r">>
SegKeyword == <<"k", "e", "y", "w", "o", "r", "d">>
SegSearch == <<"s", "e", "a", "r", "c", "h">>
DefaultLimit == <<"2", "0">>
DefaultEnd == <<"2", "0", "3", "0", "-", "1", "2", "-", "3", "1">>

\* the value of a string of decimal digits
RECURSIVE Decimal(_)
Decimal(s) ==
    IF s = <<>> THEN 0
    ELSE 10 * Decimal(SubSeq(s, 1, Len(s) - 1)) + (Ord[s[Len(s)]] - Ord["0"])

\* int(s) returns: s is an optional minus sign and at least one digit
IsInt(s) ==
    LET d == IF s # <<>> /\ s[1] = "-" THEN Tail(s) ELSE s
    IN  d # <<>> /\ \A i \in 1..Len(d) : IsDigit(d[i])

\* int(s) where it returns
int(s) == IF s[1] = "-" THEN 0 - Decimal(Tail(s)) ELSE Decimal(s)

\* ' '.join(parts)
RECURSIVE Join(_)
Join(parts) ==
    IF parts = <<>> THEN <<>>
    ELSE IF Len(parts) = 1 THEN parts[1]
    ELSE parts[1] \o <<" ">> \o Join(Tail(parts))

\* the percent escapes of the characters that occur escaped in the requests
Escapes ==
    [e \in {<<"2", "0">>, <<"6", "E">>, <<"6", "e">>} |-> IF e = <<"2", "0">> THEN " " ELSE "n"]

\* urllib.parse.unquote: every %xx escape becomes the character it encodes
RECURSIVE unquote(_)
unquote(s) ==
    IF s = <<>> THEN <<>>
    ELSE IF s[1] = "%" /\ Len(s) >= 3 /\ SubSeq(s, 2, 3) \in DOMAIN Escapes
         THEN <<Escapes[SubSeq(s, 2, 3)]>> \o unquote(SubSeq(s, 4, Len(s)))
         ELSE <<s[1]>> \o unquote(Tail(s))

\* the table rejects a query whose Limit is not positive: table.query raises
QueryRaises(limit) == limit <= 0

\* PaperAPIHandler.get_paper: the set of possible returns (Limit=1 on an
\* index with a hash key only)
get_paper(table, arxiv_id) ==
    LET found == {it \in table : it.GSI2PK = PaperPrefix \o arxiv_id}
    IN  IF found = {} THEN {[papers |-> <<>>, count |-> 0]}
        ELSE {[papers |-> <<FullResultOf(it)>>, count |-> 1] : it \in found}

\* PaperAPIHandler.query_daterange
query_daterange(table, category, start_date, end_date) ==
    LET Items == Between(QueryPK(table, CategoryPrefix \o category, TRUE),
                         start_date \o Hash, end_date \o MaxSentinel)
    IN  [category |-> category,
         date_range |-> [start |-> start_date, end |-> end_date],
         papers |-> [i \in 1..Len(Items) |-> PaperOf(Items[i])],
         count |-> Len(Items)]

\* what one GET did: the responses it sent and the table.query calls it made
Outcome(status, body, n) ==
    [responses |-> <<[status |-> status, body |-> body]>>, queries |-> n]

\* send_json_response(result)
Sent(result) == Outcome(StatusOK, result, 1)

\* except Exception as e: send_error_response(str(e), 500), after n queries
Raised(n) == Outcome(StatusError, [error |-> "exception"], n)

\* the branch of /papers/recent
RecentRoute(table, query_params) ==
    LET category == Get(query_params, "category", csLG)
        limit == Get(query_params, "limit", DefaultLimit)
    IN  IF ~IsInt(limit) THEN {Raised(0)}
        ELSE IF QueryRaises(int(limit)) THEN {Raised(1)}
        ELSE {Sent(query_recent(table, category, int(limit)))}

\* the branch of /papers/author/{author_name}
AuthorRoute(table, path_parts) ==
    {Sent(r) : r \in query_author(table,
                        unquote(Join(SubSeq(path_parts, 3, Len(path_parts)))))}

\* the branch of /papers/keyword/{keyword}
KeywordRoute(table, path_parts, query_params) ==
    LET limit == Get(query_params, "limit", DefaultLimit)
    IN  IF ~IsInt(limit) THEN {Raised(0)}
        ELSE IF QueryRaises(int(limit)) THEN {Raised(1)}
        ELSE {Sent(r) : r \in query_keyword(table, path_parts[3], int(limit))}

\* the branch of /papers/search
SearchRoute(table, query_params) ==
    {Sent(query_daterange(table, Get(query_params, "category", csLG),
                          Get(query_params, "start", Date0101),
                          Get(query_params, "end", DefaultEnd)))}

\* the branch of /papers/{arxiv_id}
PaperRoute(table, arxiv_id) ==
    {IF result.papers # <<>> THEN Sent(result)
     ELSE Outcome(StatusNotFound, [error |-> "Paper not found"], 1) :
        result \in get_paper(table, arxiv_id)}

\* PaperAPIHandler.do_GET: the set of possible outcomes of one request
do_GET(table, req) ==
    LET path_parts == req.path
        query_params == req.params
    IN  IF Len(path_parts) >= 2 /\ path_parts[1] = SegPapers
        THEN IF path_parts[2] = SegRecent
                 THEN RecentRoute(table, query_params)
             ELSE IF path_parts[2] = SegAuthor /\ Len(path_parts) >= 3
                 THEN AuthorRoute(table, path_parts)
             ELSE IF path_parts[2] = SegKeyword /\ Len(path_parts) >= 3
                 THEN KeywordRoute(table, path_parts, query_params)
             ELSE IF path_parts[2] = SegSearch
                 THEN SearchRoute(table, query_params)
             ELSE IF Len(path_parts) = 2
                 THEN PaperRoute(table, path_parts[2])
             ELSE {Outcome(StatusNotFound, [error |-> "Invalid endpoint"], 0)}
        ELSE {Outcome(StatusNotFound, [error |-> "Invalid path"], 0)}

\* the requests: values of the limit parameter, of the date parameters and of
\* the category parameter, absent (no key) or given
NoParams == [x \in {} |-> <<>>]
LimitParams ==
    {NoParams}
        \cup {[limit |-> l] : l \in {<<"1">>, <<"2">>, <<"0">>, <<"-", "1">>, <<"x", "1">>}}
BadDate == <<"J", "a", "n", " ", "3", "1">>
DateParams ==
    {NoParams, [start |-> Date0115], [end |-> Date0131],
     [start |-> Date0101, end |-> Date0131],
     [start |-> BadDate], [end |-> BadDate], [start |-> Date0131, end |-> Date0101]}
CsXX == <<"c", "s", ".", "X", "X">>
CategoryParams == {NoParams, [category |-> csLG], [category |-> CsXX]}
Eve == <<"E", "v", "e">>
Id9 == <<"9", "9", "9", "9", ".", "9", "9">>
SegExtra == <<"e", "x", "t", "r", "a">>

\* the paths: each route, routes with a segment too many or too few, and
\* paths outside /papers
Request(path, params) == [path |-> path, params |-> params]
Requests ==
    {Request(<<SegPapers, SegRecent>>, Merge(c, l)) :
        c \in CategoryParams, l \in LimitParams}
    \cup {Request(<<SegPapers, SegKeyword, k>>, l) :
        k \in {KwGNN, KwNlp}, l \in LimitParams}
    \cup {Request(<<SegPapers, SegSearch>>, Merge(c, d)) :
        c \in CategoryParams, d \in DateParams}
    \cup {Request(<<SegPapers, SegAuthor, a>>, NoParams) :
        a \in {Ann, Eve, <<"A", "%", "6", "E", "n">>}}
    \cup {Request(<<SegPapers, i>>, NoParams) : i \in {Id1, Id2, Id9}}
    \cup {Request(p, NoParams) :
        p \in {<<>>, <<SegPapers>>, <<SegSearch, Id1>>, <<SegPapers, Id1, SegExtra>>,
               <<SegPapers, SegAuthor>>, <<SegPapers, SegKeyword>>,
               <<SegPapers, SegAuthor, Ann, Bob>>,
               <<SegPapers, SegRecent, SegExtra>>,
               <<SegPapers, SegSearch, SegExtra>>,
               <<SegPapers, SegKeyword, KwGnn, SegExtra>>}}

\* the papers in the table the server is asked about
ServedPapers ==
    {BasePaper(Id1), [BasePaper(Id1) EXCEPT !.published = Jan31],
     BasePaper(Id2), [BasePaper(Id2) EXCEPT !.authors = <<Ann, Bob>>]}
ServedBatches(n) == [1..n -> ServedPapers]

\* do_GET handles one request on the table as it is
DoGet(req) ==
    /\ \E o \in do_GET(store, req) :
        /\ responses' = o.responses
        /\ queries' = o.queries
    /\ request' = req
    /\ UNCHANGED <<loader, extractor>>

\* the server answers requests while the loader fills the table
NextHttp ==
    \/ \E n \in 1..MaxBatch :
        n <= MaxPapers - loaded /\ \E batch \in ServedBatches(n) : StartIngest(batch)
    \/ WriteItem
    \/ Finish
    \/ \E req \in Requests : DoGet(req)

SpecHttp == Init /\ [][NextHttp]_vars

\* a request has been handled
Handled == "path" \in DOMAIN request

\* the limit parameter of the request is absent or a positive integer
LimitIsPositive ==
    LET limit == Get(request.params, "limit", DefaultLimit)
    IN  IsInt(limit) /\ int(limit) > 0

\* the request handled last looks up a value that no paper of the input has:
\* the identifier 9999.99, the author Eve, the category cs.XX, the keyword nlp
LooksUpUnknown ==
    /\ Handled
    /\ \/ request.path = <<SegPapers, Id9>>
       \/ request.path = <<SegPapers, SegAuthor, Eve>>
       \/ request.path = <<SegPapers, SegKeyword, KwNlp>> /\ LimitIsPositive
       \/ /\ request.path \in {<<SegPapers, SegRecent>>, <<SegPapers, SegSearch>>}
          /\ Get(request.params, "category", csLG) = CsXX
          /\ LimitIsPositive

\* s has the form YYYY-MM-DD
IsDate(s) ==
    /\ Len(s) = 10
    /\ \A i \in {1, 2, 3, 4, 6, 7, 9, 10} : IsDigit(s[i])
    /\ s[5] = "-" /\ s[8] = "-"

\* the request handled last is a recent-by-category or by-keyword request
\* with an integer limit that is not positive, or a by-date-range request
\* with a start or end that is no date
Malformed ==
    /\ Handled
    /\ \/ /\ \/ request.path = <<SegPapers, SegRecent>>
             \/ Len(request.path) = 3 /\ SubSeq(request.path, 1, 2) = <<SegPapers, SegKeyword>>
          /\ IsInt(Get(request.params, "limit", DefaultLimit))
          /\ int(Get(request.params, "limit", DefaultLimit)) <= 0
       \/ /\ request.path = <<SegPapers, SegSearch>>
          /\ \/ ~IsDate(Get(request.params, "start", Date0101))
             \/ ~IsDate(Get(request.params, "end", DefaultEnd))

\* the path is one of the routes /papers/recent, /papers/author/{name},
\* /papers/{id}, /papers/search, /papers/keyword/{kw}; a name may hold slashes
IsRoute(path) ==
    /\ Len(path) >= 2
    /\ path[1] = SegPapers
    /\ \/ Len(path) = 2
       \/ path[2] = SegAuthor
       \/ path[2] = SegKeyword /\ Len(path) = 3

\* handling the request raises: the limit of a route that takes one is not
\* an integer, or the table rejects it
Raises ==
    /\ Len(request.path) >= 2
    /\ request.path[1] = SegPapers
    /\ \/ request.path[2] = SegRecent
       \/ request.path[2] = SegKeyword /\ Len(request.path) >= 3
    /\ ~LimitIsPositive

\* what the query functions return when nothing is found
Nothing == [results |-> <<>>, count |-> 0]

----------------------------------------------------------------------------
(* The keyword extractor called on its own: load_data.py extract_keywords *)

\* the texts: up to MaxWords of these words separated by blanks, and the
\* example sentence
Words ==
    {<<"t", "h", "e">>, <<"M", "o", "d", "e", "l">>, <<"m", "o", "d", "e", "l">>, <<"u", "s", "e", "s">>, <<"a", "b">>, <<"T", "r", "e", "e", "-", "G", "N", "N">>}
ExampleText == <<"t", "h", "e", " ", "m", "o", "d", "e", "l", " ", "u", "s", "e", "s", " ", "a", " ", "m", "o", "d", "e", "l", " ", "f", "o", "r", " ", "m", "o", "d", "e", "l", "s">>
Texts ==
    {Join(ws) : ws \in UNION {[1..n -> Words] : n \in 0..MaxWords}}
        \cup {ExampleText}
TopNs == 1..MaxTopN

\* one call of extract_keywords(t, n)
Extract(t, n) ==
    /\ arg_top_n = 0
    /\ arg_text' = t
    /\ arg_top_n' = n
    /\ returned' = extract_keywords(t, n)
    /\ UNCHANGED <<loader, front>>

NextExtract == \E t \in Texts : \E n \in TopNs : Extract(t, n)

SpecExtract == Init /\ [][NextExtract]_vars

\* the positions where w stands in s as a whole word
Occurrences(s, w) ==
    {i \in 1..(Len(s) - Len(w) + 1) :
        /\ SubSeq(s, i, i + Len(w) - 1) = w
        /\ Boundary(s, i - 1)
        /\ Boundary(s, i + Len(w) - 1)}

\* w is ranked before v in s: it occurs more often, or as often and earlier
RankedBefore(s, w, v) ==
    \/ Cardinality(Occurrences(s, w)) > Cardinality(Occurrences(s, v))
    \/ /\ Cardinality(Occurrences(s, w)) = Cardinality(Occurrences(s, v))
       /\ SetMin(Occurrences(s, w)) < SetMin(Occurrences(s, v))

\* the returned list is at most top_n distinct lowercase alphabetic words of
\* the text, of length 3 or more, none a stopword, ranked by frequency and
\* then by first occurrence; nothing is returned for the empty text
KeywordsRanked ==
    LET low == Lower(arg_text)
    IN  /\ Len(returned) <= arg_top_n
        /\ \A i, j \in 1..Len(returned) : i # j => returned[i] # returned[j]
        /\ \A i \in 1..Len(returned) :
            /\ Len(returned[i]) >= MinWordLen
            /\ \A k \in 1..Len(returned[i]) : IsLower(returned[i][k])
            /\ returned[i] \notin STOPWORDS
            /\ Occurrences(low, returned[i]) # {}
        /\ \A i, j \in 1..Len(returned) :
            i < j => RankedBefore(low, returned[i], returned[j])
        /\ arg_text = <<>> => returned = <<>>

----------------------------------------------------------------------------
(* Properties *)

\* C1: after any sequence of completed ingests, the entries stored under an
\* identifier are exactly one per category, author and keyword of the version
\* ingested last, and all of them carry that version's payload.
C1_EntriesAreThoseOfLatestVersion ==
    Completed =>
        \A id \in Ingested :
            LET E == EntriesOf(store, id)
                data == base_data(latest[id])
            IN  /\ {it.PK : it \in E} = IndexKeys(data)
                /\ Cardinality(E) = Cardinality(IndexKeys(data))
                /\ \A it \in E : Payload(it) = data

\* C2: after a completed re-ingest, no CATEGORY#c partition holds an entry of
\* the identifier for a category c outside the new version's categories.
C2_NoEntryUnderDroppedCategory ==
    Completed =>
        \A id \in Ingested :
            \A it \in EntriesOf(store, id) :
                IsPrefix(CategoryPrefix, it.PK) =>
                    it.PK \in {CategoryPrefix \o c :
                                  c \in Range(CategoryValues(base_data(latest[id])))}

\* C3: after a completed re-ingest, by-identifier returns the payload of the
\* version ingested last, whichever item of the lookup family it picks.
C3_ByIdentifierReturnsLatestVersion ==
    Completed =>
        \A id \in Ingested :
            \A r \in get_paper_by_id(store, id) :
                /\ r.count = 1
                /\ r.results[1] = base_data(latest[id])

\* C4: at every point of a run, also one cut short after any number of puts,
\* every entry (PK, SK) the table held when the run began is still there.
C4_NoCopyLost ==
    \A it \in base : \E jt \in store : jt.PK = it.PK /\ jt.SK = it.SK

\* C4 witness: a re-ingest cut short after some puts, leaving entries of the
\* old version next to entries of the new one.
C4_Witness ==
    /\ pc = "crashed"
    /\ Written >= 1
    /\ \E i \in 1..Len(papers) :
        /\ \E it \in base : it.arxiv_id = papers[i].id
        /\ \E it \in store : it.arxiv_id = papers[i].id
                             /\ Payload(it) # base_data(papers[i])
        /\ \E it \in store : it.arxiv_id = papers[i].id
                             /\ Payload(it) = base_data(papers[i])
                             /\ it \notin base

\* C6: a record with k distinct categories, m distinct authors and n
\* keywords is projected to exactly k+m+n items, no two with the same (PK, SK).
C6_OneItemPerDistinctValue ==
    \A i \in 1..Len(papers) :
        LET data == base_data(papers[i])
            items == create_dynamodb_items(papers[i])
        IN  /\ Len(items) = Cardinality(Range(CategoryValues(data)))
                            + Cardinality(Range(AuthorValues(data)))
                            + Len(data.keywords)
            /\ \A a, b \in 1..Len(items) :
                a # b => ~(items[a].PK = items[b].PK /\ items[a].SK = items[b].SK)

\* C7: when a run has completed, running the same input file again leaves the
\* table as it is.
C7_SecondRunChangesNothing ==
    pc = "done" => WriteAll(store, all_items) = store

\* C7 witness: a completed run that ingested again an identifier the table
\* held and changed the table.
C7_Witness ==
    pc = "done" /\ ReIngesting /\ store # base

\* C8: with pairwise distinct identifiers in the input file, whatever order
\* the puts are applied in, the table holds what the puts made so far would
\* have left had they been applied in the order of the loop; so the final
\* contents are those of the sequential run.
C8_AnyOrderSameContents ==
    pc \in {"writing", "done"} /\ DistinctIds(papers) =>
        store = WriteAll(base, PutSoFar)

\* C8 witness: two papers with distinct identifiers, the last item put before
\* the first one.
C8_Witness ==
    /\ pc = "writing"
    /\ Len(papers) >= 2
    /\ DistinctIds(papers)
    /\ 1 \in pending
    /\ Len(all_items) \notin pending

\* C9 as stated: recent-by-category with limit L returns at most L entries,
\* each published strictly later than the next.
C9_RecentStrictlyDescending ==
    \A c \in QueryCategories : \A lim \in Limits :
        LET r == query_recent_in_category(store, c, lim)
        IN  r.count <= lim /\ StrictlyDescendingByPublished(r.results)

\* C9 as amended: recent-by-category with limit L returns at most L entries,
\* strictly descending by sort key published#identifier, so that no entry is
\* published later than the one before it; entries of different identifiers
\* with the same timestamp are all returned. Both front ends.
C9_RecentDescendingBySortKey ==
    \A c \in QueryCategories : \A lim \in Limits :
        LET r == query_recent_in_category(store, c, lim)
            h == query_recent(store, c, lim)
        IN  /\ r.count <= lim /\ r.count = Len(r.results)
            /\ DescendingBySortKey(r.results)
            /\ NotAscendingByPublished(r.results)
            /\ h.count <= lim /\ h.count = Len(h.papers)
            /\ DescendingBySortKey(h.papers)
            /\ NotAscendingByPublished(h.papers)

\* C9 witness: a category with more entries than the limit, and a result with
\* two entries of the same publication timestamp.
C9_Witness ==
    \E c \in QueryCategories :
        /\ \E lim \in Limits :
            query_recent_in_category(store, c, lim).count = lim
            /\ Cardinality(Partition(store, CategoryPrefix \o c)) > lim
        /\ \E lim \in Limits :
            LET rs == query_recent_in_category(store, c, lim).results
            IN  \E i \in 1..(Len(rs) - 1) : rs[i].published = rs[i + 1].published

\* C10: by-date-range(category, start, end) returns exactly the entries of the
\* category published on a date d with start <= d <= end.
C10_DateRangeInclusive ==
    \A c \in QueryCategories : \A s, e \in QueryDates :
        StrLeq(s, e) =>
            Range(query_papers_in_date_range(store, c, s, e).results)
                = {ResultOf(it) : it \in
                     {jt \in Partition(store, CategoryPrefix \o c) :
                        /\ StrLeq(s, DateOf(jt.published, s))
                        /\ StrLeq(DateOf(jt.published, e), e)}}

\* C11: by-keyword is case-fold invariant: for every table contents and every
\* limit, two keywords that differ only in case get the same possible
\* results, from the command-line function and from the HTTP handler.
C11_KeywordCaseFoldInvariant ==
    \A k1, k2 \in KeywordArgs : \A lim \in Limits :
        k1 # k2 /\ Lower(k1) = Lower(k2) =>
            /\ query_papers_by_keyword(store, k1, lim)
                   = query_papers_by_keyword(store, k2, lim)
            /\ {r.papers : r \in query_keyword(store, k1, lim)}
                   = {r.papers : r \in query_keyword(store, k2, lim)}

\* C11 witness: a stored keyword queried in upper case, with entries returned.
C11_Witness ==
    \E lim \in Limits :
        \E r \in query_papers_by_keyword(store, KwGNN, lim) : r.count >= 1

\* C12: a lookup of a value nothing was ingested under is answered with an
\* empty result list and count 0 and never with an error: by-identifier,
\* recent-by-category, by-author, by-date-range and by-keyword, from the query
\* functions and from the HTTP front end.
C12_UnknownValueIsEmptyResult ==
    /\ get_paper_by_id(store, Id9) = {Nothing}
    /\ query_papers_by_author(store, Eve) = {Nothing}
    /\ \A lim \in Limits :
        /\ query_recent_in_category(store, CsXX, lim) = Nothing
        /\ query_papers_by_keyword(store, KwNlp, lim) = {Nothing}
    /\ \A s, e \in QueryDates :
        query_papers_in_date_range(store, CsXX, s, e) = Nothing
    /\ LooksUpUnknown =>
        /\ Len(responses) = 1
        /\ responses[1].status = StatusOK
        /\ responses[1].body.papers = <<>>
        /\ responses[1].body.count = 0

\* C13 as stated: extract_keywords(text, top_n) returns at most top_n distinct
\* lowercase alphabetic tokens of length 3 or more, none a stopword, by
\* descending frequency and then by first occurrence, nothing for the empty
\* text; and for "the model uses a model for models" with top_n = 2 it
\* returns [model, models].
C13_ExampleYieldsModelModels ==
    arg_top_n > 0 =>
        /\ KeywordsRanked
        /\ arg_text = ExampleText /\ arg_top_n = 2 =>
            returned = <<<<"m", "o", "d", "e", "l">>, <<"m", "o", "d", "e", "l", "s">>>>

\* C13 as amended: the same, but for the example sentence with top_n = 2 the
\* function returns [model, uses]: "uses" is not in STOPWORDS and occurs
\* before "models".
C13_ExampleYieldsModelUses ==
    arg_top_n > 0 =>
        /\ KeywordsRanked
        /\ arg_text = ExampleText /\ arg_top_n = 2 =>
            returned = <<<<"m", "o", "d", "e", "l">>, <<"u", "s", "e", "s">>>>

\* C13 witness: the example sentence extracted with top_n = 2, and a text
\* whose kept words are cut at top_n.
C13_Witness ==
    /\ arg_top_n = 2
    /\ arg_text = ExampleText
    /\ Len(returned) = 2
    /\ Cardinality({w \in {<<"m", "o", "d", "e", "l">>, <<"u", "s", "e", "s">>, <<"m", "o", "d", "e", "l", "s">>} :
                       Occurrences(arg_text, w) # {}}) > arg_top_n

\* C14: a request with a limit that is not positive (recent-by-category,
\* by-keyword) or with a malformed date (by-date-range) is rejected before
\* querying: no storage query is made for it and the caller gets a
\* bad-request response, not a result and not an internal error.
C14_MalformedRejectedBeforeQuery ==
    Malformed =>
        /\ queries = 0
        /\ Len(responses) = 1
        /\ responses[1].status \in 400..499

\* C16: every GET is answered with exactly one response after at most one
\* storage query; a path that is none of the five routes gets a 404 response
\* without any storage query, and a request whose handling raises gets a 500
\* response.
C16_OneResponsePerGet ==
    Handled =>
        /\ Len(responses) = 1
        /\ queries <= 1
        /\ ~IsRoute(request.path) =>
            responses[1].status = StatusNotFound /\ queries = 0
        /\ Raises => responses[1].status = StatusError

\* C15: a permanent storage error on the put of one item aborts that item
\* only: when the run has ended, every other item of the batch has been
\* written, so the failed item is the only one of the run not put.
C15_FailedPutAbortsOnlyItsItem ==
    pc = "crashed" => Cardinality(pending) = 1

\* C17: a record without authors is projected to exactly one AUTHOR item,
\* keyed by the sentinel author "unknown", and a record without categories to
\* exactly one CATEGORY item, keyed by "uncategorized"; the payload of every
\* item of the record carries the sentinel list in place of the missing one.
C17_MissingListsBecomeSentinels ==
    \A i \in 1..Len(papers) :
        LET items == create_dynamodb_items(papers[i])
        IN  /\ Get(papers[i], "authors", <<>>) = <<>> =>
                /\ Cardinality(ItemsUnder(items, AuthorPrefix)) = 1
                /\ \A k \in ItemsUnder(items, AuthorPrefix) :
                    items[k].PK = AuthorPrefix \o SentinelAuthor
                /\ \A k \in 1..Len(items) : items[k].authors = <<SentinelAuthor>>
            /\ Get(papers[i], "categories", <<>>) = <<>> =>
                /\ Cardinality(ItemsUnder(items, CategoryPrefix)) = 1
                /\ \A k \in ItemsUnder(items, CategoryPrefix) :
                    items[k].PK = CategoryPrefix \o Uncategorized
                /\ \A k \in 1..Len(items) : items[k].categories = <<Uncategorized>>

\* C18: by-keyword with limit L reads the partition KEYWORD#<keyword in lower
\* case> of the keyword index and returns at most L entries, none published
\* later than the entry before it; from the query function and from the HTTP
\* handler, whichever order the index gives entries of one timestamp.
C18_KeywordDescendingByRecency ==
    \A k \in KeywordArgs : \A lim \in Limits :
        /\ \A Items \in KeywordQuery(store, k, lim) :
            \A i \in 1..Len(Items) : Items[i].PK = KeywordPrefix \o Lower(k)
        /\ \A r \in query_papers_by_keyword(store, k, lim) :
            /\ r.count <= lim /\ r.count = Len(r.results)
            /\ NotAscendingByPublished(r.results)
        /\ \A h \in query_keyword(store, k, lim) :
            /\ h.count <= lim /\ h.count = Len(h.papers)
            /\ NotAscendingByPublished(h.papers)

\* C18 witness: a keyword, queried in upper case, with more entries than one
\* limit, and with entries published at different times in one result.
C18_Witness ==
    /\ \E lim \in Limits :
        /\ Cardinality(IndexPartition(store, "GSI3PK", KeywordKey(KwGNN))) > lim
        /\ \E r \in query_papers_by_keyword(store, KwGNN, lim) : r.count = lim
    /\ \E lim \in Limits :
        \E r \in query_papers_by_keyword(store, KwGNN, lim) :
            \E i \in 1..(Len(r.results) - 1) :
                r.results[i].published # r.results[i + 1].published

\* C19: after any sequence of ingests, no result of recent-by-category,
\* by-author, by-date-range or by-keyword holds the same identifier twice,
\* also after a re-ingest that changed the publication timestamp.
C19_NoIdentifierTwice ==
    /\ \A c \in QueryCategories :
        /\ \A lim \in Limits :
            NoRepeatedId(query_recent_in_category(store, c, lim).results)
        /\ \A s, e \in QueryDates :
            NoRepeatedId(query_papers_in_date_range(store, c, s, e).results)
    /\ \A a \in QueryAuthors :
        \A r \in query_papers_by_author(store, a) : NoRepeatedId(r.results)
    /\ \A k \in KeywordArgs : \A lim \in Limits :
        \A r \in query_papers_by_keyword(store, k, lim) : NoRepeatedId(r.results)

\* C20: in every reachable state the keys of every stored item agree with the
\* payload it carries: the sort key is '<published>#<arxiv_id>', the lookup
\* key is 'PAPER#<arxiv_id>', and the value in the partition key is one of
\* the payload's categories, authors or keywords; also for records without
\* authors or categories.
C20_KeysAgreeWithPayload ==
    \A it \in store :
        /\ it.SK = it.published \o Hash \o it.arxiv_id
        /\ it.GSI2PK = PaperPrefix \o it.arxiv_id
        /\ \/ \E c \in Range(it.categories) : it.PK = CategoryPrefix \o c
           \/ \E a \in Range(it.authors) : it.PK = AuthorPrefix \o a
           \/ \E k \in Range(it.keywords) : it.PK = KeywordPrefix \o k


\* C21: recent-by-category with limit L returns the L most recent entries of
\* the category: as many entries as the limit and the partition allow, each
\* an entry of the partition CATEGORY#<category>, in descending order of the
\* sort key published#identifier, and every entry of the partition left out
\* has a sort key no greater than that of every entry returned. From the
\* query function and from the HTTP handler.
C21_RecentReturnsMostRecent ==
    \A c \in QueryCategories : \A lim \in Limits :
        LET P == Partition(store, CategoryPrefix \o c)
            r == query_recent_in_category(store, c, lim)
            h == query_recent(store, c, lim)
        IN  /\ r.count = Min(lim, Cardinality(P))
            /\ Len(r.results) = r.count
            /\ DescendingBySortKey(r.results)
            /\ \A i \in 1..Len(r.results) : \E it \in P : ResultOf(it) = r.results[i]
            /\ \A it \in P :
                ResultOf(it) \notin Range(r.results) =>
                    \A i \in 1..Len(r.results) :
                        StrLeq(it.SK, SortKey(r.results[i].published,
                                              r.results[i].arxiv_id))
            /\ h.count = Min(lim, Cardinality(P))
            /\ Len(h.papers) = h.count
            /\ DescendingBySortKey(h.papers)
            /\ \A i \in 1..Len(h.papers) : \E it \in P : PaperOf(it) = h.papers[i]
            /\ \A it \in P :
                PaperOf(it) \notin Range(h.papers) =>
                    \A i \in 1..Len(h.papers) :
                        StrLeq(it.SK, SortKey(h.papers[i].published,
                                              h.papers[i].arxiv_id))

\* C21 witness: a category holding entries published at different times,
\* more of them than the limit, so that an older entry is left out.
C21_Witness ==
    \E c \in QueryCategories : \E lim \in Limits :
        LET P == Partition(store, CategoryPrefix \o c)
            r == query_recent_in_category(store, c, lim)
        IN  /\ Cardinality(P) > lim
            /\ r.count = lim
            /\ \E it \in P :
                /\ ResultOf(it) \notin Range(r.results)
                /\ \A i \in 1..Len(r.results) :
                    StrLess(it.published, r.results[i].published)

====
